---- MODULE Spec2Model ----
(***************************************************************************)
(* Model of mem0_mcp_server/server.py: the scope resolver                  *)
(* (_extract_id_value, _extract_user_id), the result normaliser            *)
(* (_mem0_call), the lazily created backend client (_mem0_client) and the  *)
(* tool handlers registered by create_server.                              *)
(*                                                                         *)
(* Python values are tagged records: the tag t is compared before the      *)
(* payload v, so values of different Python types are never confused.      *)
(* A dict is the sequence of its <<key, value>> pairs in insertion order.  *)
(***************************************************************************)
EXTENDS Integers, Sequences, FiniteSets, TLC

VARIABLES
    memory_client_instance, \* the module-level slot _memory_client_instance
    environ,                \* os.environ["OPENAI_API_KEY"]
    invocation,             \* the call being served: its name and arguments
    backend_call,           \* the backend operation that call made, if any
    outcome,                \* what the call returned or raised
    delete_all_calls,       \* how often client.delete_all has been invoked
    init_failures,          \* how often _mem0_client has raised RuntimeError
    from_config_calls,      \* how often Memory.from_config has been called
    threads                 \* each thread inside _mem0_client: position and locals

vars == <<memory_client_instance, environ, invocation, backend_call, outcome,
          delete_all_calls, init_failures, from_config_calls, threads>>

----------------------------------------------------------------------------
(* Bounds of the model. *)

\* Longest list a backend stub returns.
MaxItems == 4
\* Nesting depth of the generated filter expressions.
MaxDepth == 2
\* Cap on the call counters (delete_all_calls, init_failures).
MaxCalls == 2
\* Number of threads the transport serves tool invocations on.
MaxThreads == 2

----------------------------------------------------------------------------
(* Python values. *)

PyNone == [t |-> "none"]
PyStr(s) == [t |-> "str", v |-> s]
PyInt(n) == [t |-> "int", v |-> n]
PyBool(b) == [t |-> "bool", v |-> b]
PyList(elems) == [t |-> "list", v |-> elems]
PyDict(pairs) == [t |-> "dict", v |-> pairs]

\* isinstance(value, (str, int, float)); floats are not modelled.
IsScalar(value) == value.t \in {"str", "int"}

\* str(value) of a scalar: a string is itself, a number its decimal form.
Str(value) == IF value.t = "str" THEN value.v ELSE ToString(value.v)

\* bool(value), as `if x:` and `not x` and `x or y` test it.
Truthy(value) ==
    CASE value.t = "none" -> FALSE
      [] value.t = "str" -> value.v # ""
      [] value.t = "int" -> value.v # 0
      [] value.t = "bool" -> value.v
      [] value.t \in {"list", "dict"} -> Len(value.v) > 0

\* key in d
HasKey(d, key) == \E i \in 1..Len(d.v) : d.v[i][1] = key

\* d.get(key): the value under key, None when the key is absent.
DictGet(d, key) ==
    IF HasKey(d, key)
    THEN d.v[CHOOSE i \in 1..Len(d.v) : d.v[i][1] = key][2]
    ELSE PyNone

\* list(d.values()), in insertion order.
DictValues(d) == [i \in 1..Len(d.v) |-> d.v[i][2]]

\* d.pop(key, None): d without key.
DictPop(d, key) == PyDict(SelectSeq(d.v, LAMBDA p : p[1] # key))

\* d[key] = value: replaces in place, or appends a new key at the end.
DictSet(d, key, value) ==
    IF HasKey(d, key)
    THEN PyDict([i \in 1..Len(d.v) |->
                    IF d.v[i][1] = key THEN <<key, value>> ELSE d.v[i]])
    ELSE PyDict(Append(d.v, <<key, value>>))

\* model_dump(exclude_none=True): the fields whose value is not None.  The
\* argument classes (AddMemoryArgs, ...) hold the fields as they are given.
ModelDump(fields) == PyDict(SelectSeq(fields, LAMBDA p : p[2].t # "none"))

Max(a, b) == IF a >= b THEN a ELSE b
Min(a, b) == IF a <= b THEN a ELSE b

\* seq[start:end] with Python's slice semantics (negative indices count
\* from the end, out-of-range indices are clamped).
PySlice(seq, start, end) ==
    LET n == Len(seq)
        lo == IF start < 0 THEN Max(n + start, 0) ELSE Min(start, n)
        hi == IF end < 0 THEN Max(n + end, 0) ELSE Min(end, n)
    IN  IF lo < hi THEN SubSeq(seq, lo + 1, hi) ELSE <<>>

----------------------------------------------------------------------------
(* json.dumps and json.loads.  A JSON document is the sequence of its      *)
(* tokens: punctuation, string literals, number literals and null.         *)

Punct(c) == [k |-> "p", v |-> c]
IsPunct(tok, c) == tok.k = "p" /\ tok.v = c

RECURSIVE json_dumps(_)
RECURSIVE DumpItems(_, _)
RECURSIVE DumpMembers(_, _)

DumpItems(elems, i) ==
    IF i > Len(elems) THEN <<>>
    ELSE (IF i > 1 THEN <<Punct(",")>> ELSE <<>>)
         \o json_dumps(elems[i]) \o DumpItems(elems, i + 1)

DumpMembers(pairs, i) ==
    IF i > Len(pairs) THEN <<>>
    ELSE (IF i > 1 THEN <<Punct(",")>> ELSE <<>>)
         \o <<[k |-> "s", v |-> pairs[i][1]], Punct(":")>>
         \o json_dumps(pairs[i][2]) \o DumpMembers(pairs, i + 1)

json_dumps(value) ==
    CASE value.t = "none" -> <<[k |-> "null"]>>
      [] value.t = "str" -> <<[k |-> "s", v |-> value.v]>>
      [] value.t = "int" -> <<[k |-> "n", v |-> value.v]>>
      [] value.t = "list" -> <<Punct("[")>> \o DumpItems(value.v, 1) \o <<Punct("]")>>
      [] value.t = "dict" -> <<Punct("{")>> \o DumpMembers(value.v, 1) \o <<Punct("}")>>

RECURSIVE ParseValue(_, _)
RECURSIVE ParseItems(_, _, _)
RECURSIVE ParseMembers(_, _, _)

\* The elements of an array from token i on, up to and including "]".
ParseItems(toks, i, acc) ==
    LET r == ParseValue(toks, i)
        got == Append(acc, r.val)
    IN  IF IsPunct(toks[r.next], ",")
        THEN ParseItems(toks, r.next + 1, got)
        ELSE [val |-> PyList(got), next |-> r.next + 1]

\* The members of an object from token i on, up to and including "}".
\* A repeated key keeps its first position and takes the last value.
ParseMembers(toks, i, acc) ==
    LET r == ParseValue(toks, i + 2)
        got == DictSet(acc, toks[i].v, r.val)
    IN  IF IsPunct(toks[r.next], ",")
        THEN ParseMembers(toks, r.next + 1, got)
        ELSE [val |-> got, next |-> r.next + 1]

ParseValue(toks, i) ==
    LET tok == toks[i]
    IN  CASE tok.k = "null" -> [val |-> PyNone, next |-> i + 1]
          [] tok.k = "s" -> [val |-> PyStr(tok.v), next |-> i + 1]
          [] tok.k = "n" -> [val |-> PyInt(tok.v), next |-> i + 1]
          [] IsPunct(tok, "[") ->
                IF IsPunct(toks[i + 1], "]")
                THEN [val |-> PyList(<<>>), next |-> i + 2]
                ELSE ParseItems(toks, i + 1, <<>>)
          [] IsPunct(tok, "{") ->
                IF IsPunct(toks[i + 1], "}")
                THEN [val |-> PyDict(<<>>), next |-> i + 2]
                ELSE ParseMembers(toks, i + 1, PyDict(<<>>))

json_loads(toks) == ParseValue(toks, 1).val

----------------------------------------------------------------------------
(* ScopeResolver. *)

\* _extract_id_value reading the last element of an in list, and in before eq.
ExtractIdValueLastOfIn(value) ==
    IF IsScalar(value) THEN PyStr(Str(value))
    ELSE IF value.t # "dict" THEN PyNone
    ELSE LET eq_value == DictGet(value, "eq")
             in_values == DictGet(value, "in")
         IN  IF in_values.t = "list" /\ Truthy(in_values)
                /\ IsScalar(in_values.v[Len(in_values.v)])
             THEN PyStr(Str(in_values.v[Len(in_values.v)]))
             ELSE IF IsScalar(eq_value) THEN PyStr(Str(eq_value))
                  ELSE PyNone

\* _extract_id_value: the id a user_id clause names, or None.
_extract_id_value(value) ==
    IF IsScalar(value) THEN PyStr(Str(value))
    ELSE IF value.t # "dict" THEN PyNone
    ELSE LET eq_value == DictGet(value, "eq")
             in_values == DictGet(value, "in")
         IN  IF IsScalar(eq_value) THEN PyStr(Str(eq_value))
             ELSE IF in_values.t = "list" /\ Truthy(in_values)
                     /\ IsScalar(in_values.v[1])
                  THEN PyStr(Str(in_values.v[1]))
                  ELSE PyNone

RECURSIVE ExtractLoopDepthFirst(_, _)
\* The loop of _extract_user_id with children put at the front of the
\* work list, so that a branch is followed to its end before its siblings.
ExtractLoopDepthFirst(queue, default_user_id) ==
    IF queue = <<>> THEN default_user_id
    ELSE LET node == Head(queue)
             rest == Tail(queue)
         IN  IF node.t = "dict"
             THEN LET extracted == IF HasKey(node, "user_id")
                                   THEN _extract_id_value(DictGet(node, "user_id"))
                                   ELSE PyNone
                  IN  IF Truthy(extracted) THEN extracted.v
                      ELSE ExtractLoopDepthFirst(DictValues(node) \o rest, default_user_id)
             ELSE IF node.t = "list"
                  THEN ExtractLoopDepthFirst(node.v \o rest, default_user_id)
                  ELSE ExtractLoopDepthFirst(rest, default_user_id)

RECURSIVE ExtractLoop(_, _)
\* The while loop of _extract_user_id over its work queue.
ExtractLoop(queue, default_user_id) ==
    IF queue = <<>> THEN default_user_id
    ELSE LET node == Head(queue)
             rest == Tail(queue)
         IN  IF node.t = "dict"
             THEN LET extracted == IF HasKey(node, "user_id")
                                   THEN _extract_id_value(DictGet(node, "user_id"))
                                   ELSE PyNone
                  IN  IF Truthy(extracted) THEN extracted.v
                      ELSE ExtractLoop(rest \o DictValues(node), default_user_id)
             ELSE IF node.t = "list"
                  THEN ExtractLoop(rest \o node.v, default_user_id)
                  ELSE ExtractLoop(rest, default_user_id)

\* _extract_user_id falling back to the process default, not to its argument.
ExtractUserIdProcessDefault(filters, default_user_id) ==
    IF ~Truthy(filters) THEN default_user_id
    ELSE ExtractLoop(<<filters>>, "mem0-mcp")

\* _extract_user_id(filters, default_user_id)
_extract_user_id(filters, default_user_id) ==
    IF ~Truthy(filters) THEN default_user_id
    ELSE ExtractLoop(<<filters>>, default_user_id)

----------------------------------------------------------------------------
(* ResultNormalizer. *)

\* What a call does: return a value, or raise an exception.
Return(value) == [kind |-> "return", value |-> value]
Raise(exc) == [kind |-> "raise", exc |-> exc]
Pending == [kind |-> "pending"]

\* An attribute an exception object does not have.
Absent == [t |-> "absent"]

\* getattr(obj, name, default)
GetAttr(obj, name, default) == IF obj[name].t = "absent" THEN default ELSE obj[name]

\* _mem0_call, always wrapping the result in a results envelope.
Mem0CallAlwaysWraps(func) ==
    IF func.kind = "raise"
    THEN IF func.exc.cls = "MemoryError"
         THEN Return(json_dumps(PyDict(<<
                <<"error", PyStr(func.exc.msg)>>,
                <<"status", GetAttr(func.exc, "status", PyNone)>>,
                <<"payload", GetAttr(func.exc, "payload", PyNone)>> >>)))
         ELSE Raise(func.exc)
    ELSE Return(json_dumps(PyDict(<< <<"results", func.value>> >>)))

\* _mem0_call, with a bare `except Exception` and the status left out.
Mem0CallCatchesAll(func) ==
    IF func.kind = "raise"
    THEN Return(json_dumps(PyDict(<<
                <<"error", PyStr(func.exc.msg)>>,
                <<"status", PyNone>>,
                <<"payload", GetAttr(func.exc, "payload", PyNone)>> >>)))
    ELSE Return(json_dumps(IF func.value.t = "list"
                           THEN PyDict(<< <<"results", func.value>> >>)
                           ELSE func.value))

\* _mem0_call(func): func is the backend operation's behaviour on this call.
_mem0_call(func) ==
    IF func.kind = "raise"
    THEN IF func.exc.cls = "MemoryError"
         THEN Return(json_dumps(PyDict(<<
                <<"error", PyStr(func.exc.msg)>>,
                <<"status", GetAttr(func.exc, "status", PyNone)>>,
                <<"payload", GetAttr(func.exc, "payload", PyNone)>> >>)))
         ELSE Raise(func.exc)
    ELSE Return(json_dumps(IF func.value.t = "list"
                           THEN PyDict(<< <<"results", func.value>> >>)
                           ELSE func.value))

----------------------------------------------------------------------------
(* The backend as this layer sees it: any operation may return a list, a   *)
(* mapping or another value, signal a MemoryError, or fail otherwise.      *)

\* A stored memory record.
Record(i) == PyDict(<< <<"id", PyStr(ToString(i))>>, <<"memory", PyStr("hello")>> >>)

\* The lists [0, 1, .., n-1] and [record 0, .., record n-1], n <= MaxItems.
IntLists == {PyList([i \in 1..n |-> PyInt(i - 1)]) : n \in 0..MaxItems}
RecordLists == {PyList([i \in 1..n |-> Record(i - 1)]) : n \in 0..MaxItems}

BackendResults ==
    IntLists \cup RecordLists
    \cup {PyDict(<< <<"results", l>> >>) : l \in IntLists \cup RecordLists}
    \cup {PyDict(<< <<"results", l>>, <<"relations", PyList(<<>>)>> >>) : l \in RecordLists}
    \cup {Record(1), PyDict(<<>>), PyDict(<< <<"message", PyStr("ok")>> >>),
          PyDict(<< <<"results", PyNone>> >>), PyNone, PyStr("ok")}

MemoryErrors ==
    {[cls |-> "MemoryError", msg |-> m, status |-> s, payload |-> p] :
        m \in {"X", ""},
        s \in {Absent, PyNone, PyInt(404), PyInt(0)},
        p \in {Absent, PyNone, PyDict(<< <<"code", PyStr("E1")>> >>)}}

OtherErrors ==
    {[cls |-> c, msg |-> "X", status |-> s, payload |-> Absent] :
        c \in {"ValueError", "TypeError"}, s \in {Absent, PyInt(404)}}

BackendBehaviours ==
    {Return(r) : r \in BackendResults} \cup {Raise(e) : e \in MemoryErrors \cup OtherErrors}

----------------------------------------------------------------------------
(* The state shared by all specifications before any call is served. *)

NoBackendCall == [op |-> "none"]
NoInvocation == [tool |-> "none"]

\* Values of OPENAI_API_KEY in the process environment: unset, empty, set.
EnvValues == {PyNone, PyStr(""), PyStr("sk-test")}

\* The threads that serve tool invocations.
Threads == 1..MaxThreads

\* A thread that is not inside _mem0_client: no locals bound.
IdleThread ==
    [pc |-> "idle", openai_api_key |-> PyNone, made |-> "None", returned |-> "None"]

Idle ==
    /\ memory_client_instance = "None"
    /\ backend_call = NoBackendCall
    /\ outcome = Pending
    /\ delete_all_calls = 0
    /\ init_failures = 0
    /\ from_config_calls = 0
    /\ threads = [t \in Threads |-> IdleThread]

----------------------------------------------------------------------------
(* SpecCall: _mem0_call applied to every backend behaviour. *)

InitCall ==
    /\ Idle
    /\ environ \in EnvValues
    /\ invocation \in {[tool |-> "_mem0_call", func |-> b] : b \in BackendBehaviours}

Call_mem0_call ==
    /\ invocation.tool = "_mem0_call"
    /\ outcome = Pending
    /\ outcome' = _mem0_call(invocation.func)
    /\ UNCHANGED <<memory_client_instance, environ, invocation, backend_call,
                   delete_all_calls, init_failures, from_config_calls, threads>>

NextCall == Call_mem0_call

SpecCall == InitCall /\ [][NextCall]_vars

\* The envelope _mem0_call is to serialise for a successful result.
ExpectedEnvelope(r) == IF r.t = "list" THEN PyDict(<< <<"results", r>> >>) ELSE r

\* C1: for every backend call that returns without error, _mem0_call
\* returns the JSON serialisation of {"results": r} when r is a list and of
\* r itself when r is a mapping; parsed back, the document is that envelope,
\* so a mapping of the shape {"results": [...]} is not wrapped again.
C1_NormalizeSuccess ==
    (/\ invocation.tool = "_mem0_call"
     /\ invocation.func.kind = "return"
     /\ invocation.func.value.t \in {"list", "dict"}
     /\ outcome # Pending)
    => /\ outcome.kind = "return"
       /\ invocation.func.value.t = "list" =>
            outcome.value = <<Punct("{"), [k |-> "s", v |-> "results"], Punct(":")>>
                            \o json_dumps(invocation.func.value) \o <<Punct("}")>>
       /\ invocation.func.value.t = "dict" =>
            outcome.value = json_dumps(invocation.func.value)
       /\ json_loads(outcome.value) = ExpectedEnvelope(invocation.func.value)

\* A mapping that already has the results shape has been normalised.
C1_Witness ==
    /\ invocation.tool = "_mem0_call"
    /\ invocation.func = Return(PyDict(<< <<"results", PyList(<<Record(0)>>)>> >>))
    /\ outcome.kind = "return"

\* C2: a backend error (MemoryError) with message m, optional status s and
\* payload p makes _mem0_call return the envelope {"error": m, "status": s
\* or null, "payload": p or null} without raising; any other failure
\* propagates to the caller as the same exception.
C2_BackendErrorEnvelope ==
    (/\ invocation.tool = "_mem0_call"
     /\ invocation.func.kind = "raise"
     /\ outcome # Pending)
    => LET exc == invocation.func.exc
       IN  IF exc.cls = "MemoryError"
           THEN /\ outcome.kind = "return"
                /\ json_loads(outcome.value) = PyDict(<<
                     <<"error", PyStr(exc.msg)>>,
                     <<"status", IF exc.status = Absent THEN PyNone ELSE exc.status>>,
                     <<"payload", IF exc.payload = Absent THEN PyNone ELSE exc.payload>> >>)
           ELSE outcome = Raise(exc)

\* The backend error "X" with status 404 and no payload has been enveloped.
C2_Witness ==
    /\ invocation.tool = "_mem0_call"
    /\ invocation.func = Raise([cls |-> "MemoryError", msg |-> "X",
                                status |-> PyInt(404), payload |-> Absent])
    /\ outcome = Return(json_dumps(PyDict(<< <<"error", PyStr("X")>>,
                           <<"status", PyInt(404)>>, <<"payload", PyNone>> >>)))

----------------------------------------------------------------------------
(* Filter expressions: leaves {scope_key: value} under AND / OR / NOT. *)

\* One-key mapping {key: value}.
Clause(key, value) == PyDict(<< <<key, value>> >>)

\* Literals a scope clause may hold.
IdScalars == {PyStr("alice"), PyStr(""), PyInt(0), PyInt(7)}

\* Values of a user_id clause _extract_id_value reads an id from.
ExtractableIdValues ==
    IdScalars
    \cup {Clause("eq", s) : s \in IdScalars}
    \cup {Clause("in", PyList(<<s>>)) : s \in IdScalars}
    \cup {Clause("in", PyList(<<s, PyStr("bob")>>)) : s \in IdScalars}
    \cup {PyDict(<< <<"eq", PyNone>>, <<"in", PyList(<<PyStr("carol")>>)>> >>),
          PyDict(<< <<"in", PyList(<<PyStr("carol")>>)>>, <<"eq", PyStr("dave")>> >>)}

\* Values of a user_id clause it reads nothing from.
OpaqueIdValues ==
    {PyNone, PyList(<<PyStr("alice")>>), Clause("in", PyList(<<>>)),
     Clause("eq", PyNone), Clause("ne", PyStr("alice")), PyDict(<<>>)}

UserClauses == {Clause("user_id", v) : v \in ExtractableIdValues \cup OpaqueIdValues}

\* Clauses on other keys.
OtherClauses ==
    {Clause("agent_id", PyStr("a1")),
     Clause("created_at", Clause("gte", PyStr("2024-01-01")))}

\* A clause sharing its mapping with another key, before or after it.
MixedClauses ==
    {PyDict(<< <<"user_id", v>>, <<"run_id", PyStr("r1")>> >>) : v \in IdScalars}
    \cup {PyDict(<< <<"run_id", PyStr("r1")>>, <<"user_id", v>> >>) : v \in IdScalars}

\* The ways of putting expression e one level deeper.
Nest(e) ==
    {Clause("NOT", e),
     PyList(<<e>>),
     Clause("AND", PyList(<<e, Clause("agent_id", PyStr("a1"))>>)),
     Clause("OR", PyList(<<Clause("created_at", Clause("gte", PyStr("2024-01-01"))), e>>))}

RECURSIVE FilterExprs(_)
\* The expressions nested at most d levels deep.
FilterExprs(d) ==
    IF d = 0
    THEN UserClauses \cup OtherClauses \cup MixedClauses
    ELSE LET inner == FilterExprs(d - 1)
         IN  inner \cup UNION {Nest(e) : e \in inner}

\* Two user_id clauses side by side, and one inside the value of another.
DoubleClauses ==
    {Clause("AND", PyList(<<Clause("user_id", a), Clause("user_id", b)>>)) :
        a, b \in {PyStr("alice"), PyStr(""), Clause("in", PyList(<<PyInt(7)>>))}}
    \cup {Clause("user_id", Clause("user_id", PyStr("alice")))}

\* Values of competing user_id clauses: ids, the empty string, None.
RivalIdValues ==
    {PyStr("alice"), PyStr("bob"), PyStr(""), PyNone,
     Clause("in", PyList(<<PyInt(7)>>)), Clause("eq", PyStr("carol"))}

\* Several user_id clauses at different depths and positions: a nested
\* clause before or after a shallower one, a mapping's own user_id key
\* before or after the key that holds its children, and three at once.
OrderedClauses ==
    {Clause("AND", PyList(<<Clause("NOT", Clause("user_id", a)), Clause("user_id", b)>>)) :
        a, b \in RivalIdValues}
    \cup {Clause("AND", PyList(<<Clause("user_id", a), Clause("NOT", Clause("user_id", b))>>)) :
        a, b \in RivalIdValues}
    \cup {PyDict(<< <<"user_id", a>>, <<"AND", PyList(<<Clause("user_id", b)>>)>> >>) :
        a, b \in RivalIdValues}
    \cup {PyDict(<< <<"AND", PyList(<<Clause("user_id", b)>>)>>, <<"user_id", a>> >>) :
        a, b \in RivalIdValues}
    \cup {PyDict(<< <<"OR", Clause("NOT", Clause("user_id", a))>>,
                    <<"AND", Clause("user_id", b)>> >>) :
        a, b \in RivalIdValues}
    \cup {PyDict(<< <<"user_id", c>>,
                    <<"AND", PyList(<<Clause("NOT", Clause("user_id", a)),
                                      Clause("user_id", b)>>)>> >>) :
        a, b, c \in RivalIdValues}

\* What a caller may pass as `filters`.
FilterArgs ==
    {PyNone, PyDict(<<>>), PyList(<<>>)} \cup FilterExprs(MaxDepth) \cup DoubleClauses
    \cup OrderedClauses

DefaultOwners == {"mem0-mcp", ""}

\* The number of mappings in node that have a user_id key.
RECURSIVE CountUserClauses(_)
RECURSIVE CountInSeq(_, _)
CountInSeq(elems, i) ==
    IF i > Len(elems) THEN 0
    ELSE CountUserClauses(elems[i]) + CountInSeq(elems, i + 1)

CountUserClauses(node) ==
    CASE node.t = "dict" ->
            (IF HasKey(node, "user_id") THEN 1 ELSE 0) + CountInSeq(DictValues(node), 1)
      [] node.t = "list" -> CountInSeq(node.v, 1)
      [] OTHER -> 0

\* The values found under a user_id key anywhere in node.
RECURSIVE UserClauseValues(_)
UserClauseValues(node) ==
    CASE node.t = "dict" ->
            (IF HasKey(node, "user_id") THEN {DictGet(node, "user_id")} ELSE {})
            \cup UNION {UserClauseValues(DictValues(node)[i]) : i \in 1..Len(node.v)}
      [] node.t = "list" -> UNION {UserClauseValues(node.v[i]) : i \in 1..Len(node.v)}
      [] OTHER -> {}

----------------------------------------------------------------------------
(* SpecExtract: _extract_user_id applied to every filter expression. *)

InitExtract ==
    /\ Idle
    /\ environ \in EnvValues
    /\ invocation \in {[tool |-> "_extract_user_id", filters |-> f, default_user_id |-> d] :
                          f \in FilterArgs, d \in DefaultOwners}

Call_extract_user_id ==
    /\ invocation.tool = "_extract_user_id"
    /\ outcome = Pending
    /\ outcome' = Return(_extract_user_id(invocation.filters, invocation.default_user_id))
    /\ UNCHANGED <<memory_client_instance, environ, invocation, backend_call,
                   delete_all_calls, init_failures, from_config_calls, threads>>

NextExtract == Call_extract_user_id

SpecExtract == InitExtract /\ [][NextExtract]_vars

\* The scalar a user_id clause names, as the value-extraction rule reads it:
\* the string form of a scalar, the scalar under eq, or the string form of
\* the first element of a non-empty in list.
ClauseScalar(value) ==
    IF IsScalar(value) THEN Str(value)
    ELSE IF IsScalar(DictGet(value, "eq")) THEN Str(DictGet(value, "eq"))
    ELSE Str(DictGet(value, "in").v[1])

\* The one user_id clause of the served filter expression, when it has
\* exactly one and that one is extractable.
HasOneExtractableClause ==
    /\ invocation.tool = "_extract_user_id"
    /\ outcome # Pending
    /\ Truthy(invocation.filters)
    /\ CountUserClauses(invocation.filters) = 1
    /\ UserClauseValues(invocation.filters) \subseteq ExtractableIdValues

TheClauseScalar ==
    ClauseScalar(CHOOSE v \in UserClauseValues(invocation.filters) : TRUE)

\* C3, as stated: with exactly one user_id leaf, _extract_user_id returns
\* that leaf's extracted scalar (the empty string and "0" included),
\* whatever default_owner is.
C3_AsStated ==
    HasOneExtractableClause => outcome = Return(TheClauseScalar)

\* C3, amended: with exactly one user_id leaf, _extract_user_id returns
\* that leaf's extracted scalar when it is a non-empty string ("0"
\* included), and default_owner when the extracted scalar is the empty
\* string.
C3_OneClauseWins ==
    HasOneExtractableClause =>
        outcome = Return(IF TheClauseScalar # "" THEN TheClauseScalar
                         ELSE invocation.default_user_id)

\* A nested expression whose only user_id clause holds the number 0.
C3_Witness ==
    /\ HasOneExtractableClause
    /\ invocation.filters =
          Clause("OR", PyList(<<Clause("created_at", Clause("gte", PyStr("2024-01-01"))),
                                Clause("NOT", Clause("user_id", Clause("eq", PyInt(0))))>>))
    /\ invocation.default_user_id = "mem0-mcp"
    /\ outcome = Return("0")

\* C4: with no user_id leaf anywhere in the nesting, and for absent or
\* empty filters, _extract_user_id terminates and returns default_owner
\* unchanged; it raises for no nested structure.
C4_NoClauseGivesDefault ==
    (/\ invocation.tool = "_extract_user_id"
     /\ outcome # Pending
     /\ CountUserClauses(invocation.filters) = 0)
    => outcome = Return(invocation.default_user_id)

\* A nested expression without any user_id clause has been resolved.
C4_Witness ==
    /\ invocation.tool = "_extract_user_id"
    /\ invocation.filters =
          Clause("NOT", Clause("AND", PyList(<<
                  Clause("created_at", Clause("gte", PyStr("2024-01-01"))),
                  Clause("agent_id", PyStr("a1"))>>)))
    /\ CountUserClauses(invocation.filters) = 0
    /\ outcome = Return(invocation.default_user_id)

\* Whether the value-extraction rule reads a scalar from a clause value.
IsExtractable(value) ==
    \/ IsScalar(value)
    \/ /\ value.t = "dict"
       /\ \/ IsScalar(DictGet(value, "eq"))
          \/ /\ DictGet(value, "in").t = "list"
             /\ Truthy(DictGet(value, "in"))
             /\ IsScalar(DictGet(value, "in").v[1])

\* The child values of a node: a mapping's values in key order, a list's
\* elements in index order.
ChildrenOf(node) ==
    CASE node.t = "dict" -> DictValues(node)
      [] node.t = "list" -> node.v
      [] OTHER -> <<>>

RECURSIVE ChildrenOfAll(_, _)
ChildrenOfAll(level, i) ==
    IF i > Len(level) THEN <<>>
    ELSE ChildrenOf(level[i]) \o ChildrenOfAll(level, i + 1)

\* The nodes of an expression level by level: the nodes of `level`, then
\* all their children, then the children's children, each level in order.
RECURSIVE LevelOrder(_)
LevelOrder(level) ==
    IF level = <<>> THEN <<>>
    ELSE level \o LevelOrder(ChildrenOfAll(level, 1))

\* Every user_id clause at or below a node that sits at nesting depth d,
\* as its depth and its value.
RECURSIVE ClausesBelow(_, _)
ClausesBelow(node, d) ==
    (IF node.t = "dict" /\ HasKey(node, "user_id")
     THEN {[depth |-> d, value |-> DictGet(node, "user_id")]} ELSE {})
    \cup UNION {ClausesBelow(ChildrenOf(node)[i], d + 1) :
                    i \in 1..Len(ChildrenOf(node))}

\* A clause value the rule reads a non-empty id from.
NamesAnId(value) == IsExtractable(value) /\ ClauseScalar(value) # ""

\* The served filter expression has several user_id clauses, at least one
\* of them satisfying Wins.
SeveralClauses(Wins(_)) ==
    /\ invocation.tool = "_extract_user_id"
    /\ outcome # Pending
    /\ Truthy(invocation.filters)
    /\ CountUserClauses(invocation.filters) >= 2
    /\ \E c \in ClausesBelow(invocation.filters, 0) : Wins(c.value)

\* The id of the first clause, in level order, whose value satisfies Wins.
FirstInLevelOrder(Wins(_)) ==
    LET order == LevelOrder(<<invocation.filters>>)
        IsHit(i) == /\ order[i].t = "dict"
                    /\ HasKey(order[i], "user_id")
                    /\ Wins(DictGet(order[i], "user_id"))
        first == CHOOSE i \in 1..Len(order) :
                    IsHit(i) /\ \A j \in 1..(i - 1) : ~IsHit(j)
    IN  ClauseScalar(DictGet(order[first], "user_id"))

\* C12, as stated: with several user_id clauses, _extract_user_id returns
\* the first one in breadth-first order whose value is extractable
\* (a scalar, a scalar under eq, a scalar heading an in list); clauses
\* with other values are skipped.
C12_AsStated ==
    SeveralClauses(IsExtractable) => outcome = Return(FirstInLevelOrder(IsExtractable))

\* C12, amended: with several user_id clauses, _extract_user_id returns
\* the first one in breadth-first order (a mapping's own user_id before
\* its children, mapping values in key order, list elements in index
\* order) whose value is extractable and yields a non-empty id; clauses
\* whose value is not extractable or yields the empty string are skipped
\* without ending the search, and the winner is at the shallowest depth at
\* which such a clause occurs.
C12_FirstInBreadthFirstOrder ==
    SeveralClauses(NamesAnId) =>
        /\ outcome = Return(FirstInLevelOrder(NamesAnId))
        /\ LET hits == {c \in ClausesBelow(invocation.filters, 0) : NamesAnId(c.value)}
               shallowest == CHOOSE c \in hits : \A e \in hits : c.depth <= e.depth
           IN  \E c \in hits : /\ c.depth = shallowest.depth
                               /\ outcome = Return(ClauseScalar(c.value))

\* A root clause with a value that is not extractable was skipped, and the
\* shallow clause listed second won over the nested clause listed first.
C12_Witness ==
    /\ invocation.tool = "_extract_user_id"
    /\ invocation.filters =
          PyDict(<< <<"user_id", PyNone>>,
                    <<"AND", PyList(<<Clause("NOT", Clause("user_id", PyStr("alice"))),
                                      Clause("user_id", PyStr("bob"))>>)>> >>)
    /\ outcome = Return("bob")

----------------------------------------------------------------------------
(* ConfigResolver and the backend client. *)

\* ENV_DEFAULT_USER_ID with MEM0_DEFAULT_USER_ID unset.
ENV_DEFAULT_USER_ID == "mem0-mcp"
\* ENV_ENABLE_GRAPH_DEFAULT with MEM0_ENABLE_GRAPH_DEFAULT unset.
ENV_ENABLE_GRAPH_DEFAULT == FALSE

\* _resolve_settings(ctx)[0]: the session's default_user_id, or the
\* process default when the session gives none or an empty one.
_resolve_settings(session_default) ==
    IF Truthy(session_default) THEN session_default.v ELSE ENV_DEFAULT_USER_ID

\* _default_enable_graph(enable_graph, default)
_default_enable_graph(enable_graph, default) ==
    IF enable_graph.t = "none" THEN PyBool(default) ELSE enable_graph

\* The RuntimeError _mem0_client raises without OPENAI_API_KEY.
MissingKeyError ==
    [cls |-> "RuntimeError", msg |-> "OPENAI_API_KEY is required",
     status |-> Absent, payload |-> Absent]

\* _mem0_client that constructs the client without looking at the key.
Mem0ClientSkipsKeyCheck(slot, openai_api_key) ==
    [raised |-> FALSE, instance |-> "client"]

\* _mem0_client(): slot is _memory_client_instance on entry, and
\* openai_api_key what os.getenv yields now; instance is the slot on exit.
_mem0_client(slot, openai_api_key) ==
    IF slot = "None"
    THEN IF ~Truthy(openai_api_key)
         THEN [raised |-> TRUE, instance |-> slot]
         ELSE [raised |-> FALSE, instance |-> "client"]
    ELSE [raised |-> FALSE, instance |-> slot]

\* A handler that returns before it asks for the client.
EarlyReturn(slot, document) ==
    [outcome |-> Return(json_dumps(document)),
     backend_call |-> NoBackendCall,
     client |-> slot]

\* client = _mem0_client(); _mem0_call(client.<op>, *positional, **kwargs)
\* with func the behaviour of the backend operation on this call.
ViaClient(slot, openai_api_key, op, positional, kwargs, func) ==
    LET got == _mem0_client(slot, openai_api_key)
    IN  IF got.raised
        THEN [outcome |-> Raise(MissingKeyError),
              backend_call |-> NoBackendCall,
              client |-> got.instance]
        ELSE [outcome |-> _mem0_call(func),
              backend_call |-> [op |-> op, positional |-> positional, kwargs |-> kwargs],
              client |-> got.instance]

ErrorDocument(code, detail) ==
    PyDict(<< <<"error", PyStr(code)>>, <<"detail", PyStr(detail)>> >>)

----------------------------------------------------------------------------
(* ToolDispatch: the handlers create_server registers.  Each takes the     *)
(* call's arguments a, the client slot, the OPENAI_API_KEY in force and    *)
(* the behaviour func of the backend operation should it be reached, and   *)
(* yields the handler's outcome, the backend call made and the slot.       *)

\* payload["limit"] when no page_size is requested.
DefaultLimit == 100

\* add_memory defaulting user_id even when an agent or run scope is given.
AddMemoryAlwaysDefaultsUser(a, slot, openai_api_key, func) ==
    LET default_user == _resolve_settings(a.session_default)
        args == <<
            <<"text", a.text>>,
            <<"messages", IF Truthy(a.messages) THEN a.messages ELSE PyNone>>,
            <<"user_id", IF Truthy(a.user_id) THEN a.user_id ELSE PyStr(default_user)>>,
            <<"agent_id", a.agent_id>>,
            <<"app_id", a.app_id>>,
            <<"run_id", a.run_id>>,
            <<"metadata", a.metadata>> >>
        dumped == DictPop(ModelDump(args), "app_id")
        conversation == DictGet(dumped, "messages")
        payload == DictPop(dumped, "messages")
        derived_text == DictGet(payload, "text")
    IN  IF ~Truthy(conversation)
        THEN IF Truthy(derived_text)
             THEN ViaClient(slot, openai_api_key, "add",
                    <<PyList(<<PyDict(<< <<"role", PyStr("user")>>,
                                         <<"content", derived_text>> >>)>>)>>,
                    DictPop(payload, "text"), func)
             ELSE EarlyReturn(slot, ErrorDocument("messages_missing",
                    "Provide either text or messages so Mem0 knows what to store."))
        ELSE ViaClient(slot, openai_api_key, "add", <<conversation>>,
                       DictPop(payload, "text"), func)

\* add_memory preferring text over messages and leaving text in the payload.
AddMemoryTextFirst(a, slot, openai_api_key, func) ==
    LET default_user == _resolve_settings(a.session_default)
        args == <<
            <<"text", a.text>>,
            <<"messages", IF Truthy(a.messages) THEN a.messages ELSE PyNone>>,
            <<"user_id", IF Truthy(a.user_id) THEN a.user_id
                         ELSE IF ~(Truthy(a.agent_id) \/ Truthy(a.run_id))
                              THEN PyStr(default_user) ELSE PyNone>>,
            <<"agent_id", a.agent_id>>,
            <<"run_id", a.run_id>>,
            <<"metadata", a.metadata>> >>
        dumped == ModelDump(args)
        conversation == DictGet(dumped, "messages")
        payload == DictPop(dumped, "messages")
        derived_text == DictGet(payload, "text")
    IN  IF Truthy(derived_text)
        THEN ViaClient(slot, openai_api_key, "add",
                <<PyList(<<PyDict(<< <<"role", PyStr("user")>>,
                                     <<"content", derived_text>> >>)>>)>>,
                payload, func)
        ELSE ViaClient(slot, openai_api_key, "add", <<conversation>>, payload, func)

\* add_memory
add_memory(a, slot, openai_api_key, func) ==
    LET default_user == _resolve_settings(a.session_default)
        args == <<
            <<"text", a.text>>,
            <<"messages", IF Truthy(a.messages) THEN a.messages ELSE PyNone>>,
            <<"user_id", IF Truthy(a.user_id) THEN a.user_id
                         ELSE IF ~(Truthy(a.agent_id) \/ Truthy(a.run_id))
                              THEN PyStr(default_user) ELSE PyNone>>,
            <<"agent_id", a.agent_id>>,
            <<"app_id", a.app_id>>,
            <<"run_id", a.run_id>>,
            <<"metadata", a.metadata>>,
            <<"enable_graph", _default_enable_graph(a.enable_graph, ENV_ENABLE_GRAPH_DEFAULT)>> >>
        dumped == DictPop(DictPop(ModelDump(args), "enable_graph"), "app_id")
        conversation == DictGet(dumped, "messages")
        payload == DictPop(dumped, "messages")
        derived_text == DictGet(payload, "text")
    IN  IF ~Truthy(conversation)
        THEN IF Truthy(derived_text)
             THEN ViaClient(slot, openai_api_key, "add",
                    <<PyList(<<PyDict(<< <<"role", PyStr("user")>>,
                                         <<"content", derived_text>> >>)>>)>>,
                    DictPop(payload, "text"), func)
             ELSE EarlyReturn(slot, ErrorDocument("messages_missing",
                    "Provide either text or messages so Mem0 knows what to store."))
        ELSE ViaClient(slot, openai_api_key, "add", <<conversation>>,
                       DictPop(payload, "text"), func)

\* search_memories
search_memories(a, slot, openai_api_key, func) ==
    LET default_user == _resolve_settings(a.session_default)
        args == <<
            <<"query", a.query>>,
            <<"filters", a.filters>>,
            <<"limit", a.limit>>,
            <<"enable_graph", _default_enable_graph(a.enable_graph, ENV_ENABLE_GRAPH_DEFAULT)>> >>
        dumped == ModelDump(args)
        resolved_user_id == _extract_user_id(DictGet(dumped, "filters"), default_user)
        payload == DictSet(DictPop(dumped, "enable_graph"), "user_id", PyStr(resolved_user_id))
    IN  ViaClient(slot, openai_api_key, "search", <<>>, payload, func)

\* The pagination post-processing of get_memories (the try block): the
\* response with its results cut to the requested window, or unchanged
\* when the parsed document has no get().
Paginate(response, requested_page, requested_page_size) ==
    LET parsed == json_loads(response)
    IN  IF parsed.t # "dict" THEN response
        ELSE LET results == DictGet(parsed, "results")
                 page_num == Max(requested_page.v, 1)
                 page_len == Max(requested_page_size.v, 1)
                 start == (page_num - 1) * page_len
                 end == start + page_len
             IN  IF results.t = "list"
                 THEN json_dumps(DictSet(parsed, "results",
                                         PyList(PySlice(results.v, start, end))))
                 ELSE json_dumps(parsed)

\* get_memories
get_memories(a, slot, openai_api_key, func) ==
    LET default_user == _resolve_settings(a.session_default)
        args == <<
            <<"filters", a.filters>>,
            <<"page", a.page>>,
            <<"page_size", a.page_size>>,
            <<"enable_graph", _default_enable_graph(a.enable_graph, ENV_ENABLE_GRAPH_DEFAULT)>> >>
        dumped == ModelDump(args)
        resolved_user_id == _extract_user_id(DictGet(dumped, "filters"), default_user)
        requested_page == DictGet(dumped, "page")
        requested_page_size == DictGet(dumped, "page_size")
        scoped == DictSet(DictPop(DictPop(DictPop(dumped, "enable_graph"), "page"),
                                  "page_size"),
                          "user_id", PyStr(resolved_user_id))
        fetch_limit ==
            IF requested_page_size.t # "none"
            THEN Max(IF Truthy(requested_page) THEN requested_page.v ELSE 1, 1)
                 * requested_page_size.v
            ELSE DefaultLimit
        payload == DictSet(scoped, "limit", PyInt(fetch_limit))
        called == ViaClient(slot, openai_api_key, "get_all", <<>>, payload, func)
    IN  IF called.outcome.kind = "return"
           /\ Truthy(requested_page) /\ Truthy(requested_page_size)
        THEN [called EXCEPT !.outcome =
                Return(Paginate(called.outcome.value, requested_page, requested_page_size))]
        ELSE called

\* delete_all_memories
delete_all_memories(a, slot, openai_api_key, func) ==
    LET default_user == _resolve_settings(a.session_default)
        args == <<
            <<"user_id", IF Truthy(a.user_id) THEN a.user_id ELSE PyStr(default_user)>>,
            <<"agent_id", a.agent_id>>,
            <<"app_id", a.app_id>>,
            <<"run_id", a.run_id>> >>
        payload == DictPop(ModelDump(args), "app_id")
    IN  ViaClient(slot, openai_api_key, "delete_all", <<>>, payload, func)

\* list_entities
list_entities(a, slot, openai_api_key, func) ==
    EarlyReturn(slot, ErrorDocument("unsupported_operation",
                    "list_entities not available in self-hosted mode"))

\* get_memory
get_memory(a, slot, openai_api_key, func) ==
    ViaClient(slot, openai_api_key, "get", <<a.memory_id>>, PyDict(<<>>), func)

\* update_memory
update_memory(a, slot, openai_api_key, func) ==
    ViaClient(slot, openai_api_key, "update", <<>>,
              PyDict(<< <<"memory_id", a.memory_id>>, <<"data", a.text>> >>), func)

\* delete_memory
delete_memory(a, slot, openai_api_key, func) ==
    ViaClient(slot, openai_api_key, "delete", <<a.memory_id>>, PyDict(<<>>), func)

\* delete_entities dropping app_id silently, as delete_all_memories does.
DeleteEntitiesDropsAppId(a, slot, openai_api_key, func) ==
    ViaClient(slot, openai_api_key, "delete_all", <<>>,
        ModelDump(<< <<"user_id", a.user_id>>, <<"agent_id", a.agent_id>>,
                     <<"run_id", a.run_id>> >>), func)

\* delete_entities
delete_entities(a, slot, openai_api_key, func) ==
    IF ~(Truthy(a.user_id) \/ Truthy(a.agent_id) \/ Truthy(a.app_id) \/ Truthy(a.run_id))
    THEN EarlyReturn(slot, ErrorDocument("scope_missing",
            "Provide user_id, agent_id, app_id, or run_id before calling delete_entities."))
    ELSE IF a.app_id.t # "none"
    THEN EarlyReturn(slot, ErrorDocument("unsupported_scope",
            "app_id scope is not available in self-hosted mode"))
    ELSE ViaClient(slot, openai_api_key, "delete_all", <<>>,
            ModelDump(<< <<"user_id", a.user_id>>, <<"agent_id", a.agent_id>>,
                         <<"run_id", a.run_id>> >>), func)

----------------------------------------------------------------------------
(* Spec: tool calls arriving one after another.  A handler runs to its     *)
(* end in one step; Respond hands its result back to the transport.        *)

\* Scope arguments a caller may pass: omitted, empty, or an identifier.
IdArgs == {PyNone, PyStr(""), PyStr("u1")}
AppIdArgs == {PyNone, PyStr(""), PyStr("app1")}
SessionDefaults == {PyNone, PyStr("sess-user")}
TextArgs == {PyStr(""), PyStr("buy milk")}

Message(role, content) == PyDict(<< <<"role", PyStr(role)>>, <<"content", PyStr(content)>> >>)
MessageArgs ==
    {PyNone, PyList(<<>>), PyList(<<Message("user", "hi")>>),
     PyList(<<Message("user", "hi"), Message("assistant", "hello")>>)}

PageArgs == {PyNone, PyInt(-1), PyInt(0), PyInt(1), PyInt(2), PyInt(3)}
PageSizeArgs == {PyNone, PyInt(-1), PyInt(0), PyInt(1), PyInt(2)}
ListFilters ==
    {PyNone, Clause("user_id", PyStr("alice")),
     Clause("AND", PyList(<<Clause("agent_id", PyStr("a1"))>>))}

\* What a backend operation other than get_all may do.
ToolBehaviours ==
    {Return(PyDict(<< <<"results", PyList(<<Record(0)>>)>> >>)),
     Return(PyList(<<Record(0)>>)),
     Raise([cls |-> "MemoryError", msg |-> "X", status |-> PyInt(404), payload |-> Absent]),
     Raise([cls |-> "ValueError", msg |-> "X", status |-> Absent, payload |-> Absent])}

\* What get_all may do: it is a stub free to ignore the limit it is given.
GetAllBehaviours ==
    {Return(l) : l \in IntLists}
    \cup {Return(PyDict(<< <<"results", l>> >>)) : l \in IntLists}
    \cup {Return(PyNone), Return(PyDict(<< <<"message", PyStr("ok")>> >>))}
    \cup {Raise([cls |-> "MemoryError", msg |-> "X", status |-> Absent, payload |-> Absent]),
          Raise([cls |-> "ValueError", msg |-> "X", status |-> Absent, payload |-> Absent])}

Init ==
    /\ Idle
    /\ environ \in EnvValues
    /\ invocation = NoInvocation

\* No call is being served, and the call counters have room.
Ready ==
    /\ invocation = NoInvocation
    /\ delete_all_calls < MaxCalls
    /\ init_failures < MaxCalls

\* The handler's result r becomes the state of the served call a.
Serve(a, r) ==
    /\ invocation' = a
    /\ outcome' = r.outcome
    /\ backend_call' = r.backend_call
    /\ memory_client_instance' = r.client
    /\ delete_all_calls' =
          IF r.backend_call.op = "delete_all" THEN delete_all_calls + 1 ELSE delete_all_calls
    /\ init_failures' =
          IF r.outcome = Raise(MissingKeyError) THEN init_failures + 1 ELSE init_failures
    /\ from_config_calls' =
          IF r.client # memory_client_instance
          THEN from_config_calls + 1 ELSE from_config_calls
    /\ UNCHANGED <<environ, threads>>

AddMemory ==
    /\ Ready
    /\ \E text \in TextArgs, messages \in MessageArgs, user_id \in IdArgs,
           agent_id \in IdArgs, app_id \in AppIdArgs, run_id \in IdArgs,
           session_default \in SessionDefaults, func \in ToolBehaviours :
            LET a == [tool |-> "add_memory", text |-> text, messages |-> messages,
                      user_id |-> user_id, agent_id |-> agent_id, app_id |-> app_id,
                      run_id |-> run_id, metadata |-> PyNone, enable_graph |-> PyNone,
                      session_default |-> session_default, func |-> func]
            IN  \E r \in {add_memory(a, memory_client_instance, environ, func)} : Serve(a, r)

SearchMemories ==
    /\ Ready
    /\ \E filters \in ListFilters, limit \in {PyNone, PyInt(5)},
           session_default \in SessionDefaults, func \in ToolBehaviours :
            LET a == [tool |-> "search_memories", query |-> PyStr("tea"), filters |-> filters,
                      limit |-> limit, enable_graph |-> PyNone,
                      session_default |-> session_default, func |-> func]
            IN  \E r \in {search_memories(a, memory_client_instance, environ, func)} : Serve(a, r)

GetMemories ==
    /\ Ready
    /\ \E filters \in ListFilters, page \in PageArgs, page_size \in PageSizeArgs,
           session_default \in SessionDefaults, func \in GetAllBehaviours :
            LET a == [tool |-> "get_memories", filters |-> filters, page |-> page,
                      page_size |-> page_size, enable_graph |-> PyNone,
                      session_default |-> session_default, func |-> func]
            IN  \E r \in {get_memories(a, memory_client_instance, environ, func)} : Serve(a, r)

DeleteAllMemories ==
    /\ Ready
    /\ \E user_id \in IdArgs, agent_id \in IdArgs, app_id \in AppIdArgs, run_id \in IdArgs,
           session_default \in SessionDefaults, func \in ToolBehaviours :
            LET a == [tool |-> "delete_all_memories", user_id |-> user_id,
                      agent_id |-> agent_id, app_id |-> app_id, run_id |-> run_id,
                      session_default |-> session_default, func |-> func]
            IN  \E r \in {delete_all_memories(a, memory_client_instance, environ, func)} : Serve(a, r)

ListEntities ==
    /\ Ready
    /\ LET a == [tool |-> "list_entities"]
        IN  \E r \in {list_entities(a, memory_client_instance, environ, Return(PyNone))} : Serve(a, r)

GetMemory ==
    /\ Ready
    /\ \E func \in ToolBehaviours :
            LET a == [tool |-> "get_memory", memory_id |-> PyStr("m1"), func |-> func]
            IN  \E r \in {get_memory(a, memory_client_instance, environ, func)} : Serve(a, r)

UpdateMemory ==
    /\ Ready
    /\ \E func \in ToolBehaviours :
            LET a == [tool |-> "update_memory", memory_id |-> PyStr("m1"),
                      text |-> PyStr("buy tea"), func |-> func]
            IN  \E r \in {update_memory(a, memory_client_instance, environ, func)} : Serve(a, r)

DeleteMemory ==
    /\ Ready
    /\ \E func \in ToolBehaviours :
            LET a == [tool |-> "delete_memory", memory_id |-> PyStr("m1"), func |-> func]
            IN  \E r \in {delete_memory(a, memory_client_instance, environ, func)} : Serve(a, r)

DeleteEntities ==
    /\ Ready
    /\ \E user_id \in IdArgs, agent_id \in IdArgs, app_id \in AppIdArgs, run_id \in IdArgs,
           func \in ToolBehaviours :
            LET a == [tool |-> "delete_entities", user_id |-> user_id,
                      agent_id |-> agent_id, app_id |-> app_id, run_id |-> run_id,
                      func |-> func]
            IN  \E r \in {delete_entities(a, memory_client_instance, environ, func)} : Serve(a, r)

\* The handler's return value (or exception) goes back to the transport.
Respond ==
    /\ invocation # NoInvocation
    /\ invocation' = NoInvocation
    /\ outcome' = Pending
    /\ backend_call' = NoBackendCall
    /\ UNCHANGED <<memory_client_instance, environ, delete_all_calls, init_failures,
                   from_config_calls, threads>>

\* OPENAI_API_KEY changes in the process environment between two calls.
SetEnviron ==
    /\ invocation = NoInvocation
    /\ environ' \in EnvValues \ {environ}
    /\ UNCHANGED <<memory_client_instance, invocation, backend_call, outcome,
                   delete_all_calls, init_failures, from_config_calls, threads>>

Next ==
    \/ AddMemory
    \/ SearchMemories
    \/ GetMemories
    \/ DeleteAllMemories
    \/ ListEntities
    \/ GetMemory
    \/ UpdateMemory
    \/ DeleteMemory
    \/ DeleteEntities
    \/ Respond
    \/ SetEnviron

Spec == Init /\ [][Next]_vars

----------------------------------------------------------------------------
(* Properties of the tool handlers. *)

\* The document a handler returned, parsed.
Returned == json_loads(outcome.value)

\* The error code of the document the step's handler returns.
ErrorCode(result) ==
    IF result.kind = "return" /\ json_loads(result.value).t = "dict"
    THEN DictGet(json_loads(result.value), "error")
    ELSE PyNone

\* C5, as stated (for page sizes of at least 1): with page and page_size
\* both supplied and effective_page = max(page, 1), get_all is called with
\* limit = effective_page * page_size, and a list L from the backend comes
\* back as results = L[(effective_page-1)*page_size : effective_page*page_size].
C5_AsStated ==
    (/\ invocation.tool = "get_memories"
     /\ invocation.page.t = "int"
     /\ invocation.page_size.t = "int"
     /\ invocation.page_size.v >= 1
     /\ backend_call.op = "get_all")
    => LET effective_page == Max(invocation.page.v, 1)
           page_size == invocation.page_size.v
           start == (effective_page - 1) * page_size
       IN  /\ DictGet(backend_call.kwargs, "limit") = PyInt(effective_page * page_size)
           /\ (invocation.func.kind = "return" /\ invocation.func.value.t = "list") =>
                /\ outcome.kind = "return"
                /\ Returned = PyDict(<< <<"results",
                      PyList(PySlice(invocation.func.value.v, start, start + page_size))>> >>)

\* C6, as stated: a deletion tool (delete_all_memories, delete_entities)
\* invoked with app_id supplied does not call the backend's delete_all,
\* and what it returns is an error envelope.
C6_AsStated ==
    (/\ invocation.tool \in {"delete_all_memories", "delete_entities"}
     /\ Truthy(invocation.app_id))
    => /\ backend_call.op # "delete_all"
       /\ outcome.kind = "return" => HasKey(Returned, "error")

\* delete_entities is asked to act on no non-empty scope at all.
NoScopeGiven(a) ==
    ~(Truthy(a.user_id) \/ Truthy(a.agent_id) \/ Truthy(a.app_id) \/ Truthy(a.run_id))

\* C7, as stated: delete_entities with no scope arguments returns
\* scope_missing, with app_id set (whatever the other scope arguments are)
\* returns unsupported_scope, and in both cases makes no backend call.
C7_AsStated ==
    invocation.tool = "delete_entities" =>
        /\ (/\ invocation.user_id.t = "none" /\ invocation.agent_id.t = "none"
            /\ invocation.app_id.t = "none" /\ invocation.run_id.t = "none")
           => (ErrorCode(outcome) = PyStr("scope_missing") /\ backend_call = NoBackendCall)
        /\ invocation.app_id.t # "none"
           => (ErrorCode(outcome) = PyStr("unsupported_scope") /\ backend_call = NoBackendCall)

\* C7, amended: delete_entities returns scope_missing when no scope
\* argument is non-empty (each omitted or the empty string, app_id
\* included), and unsupported_scope when app_id is set and some scope
\* argument is non-empty; in both cases the step makes no backend call,
\* leaves the client slot as it was and leaves the count of delete_all
\* invocations unchanged.
C7_RejectedScopes ==
    [][(invocation = NoInvocation /\ invocation'.tool = "delete_entities"
        /\ (NoScopeGiven(invocation') \/ invocation'.app_id.t # "none"))
       => /\ ErrorCode(outcome') =
                IF NoScopeGiven(invocation') THEN PyStr("scope_missing")
                ELSE PyStr("unsupported_scope")
          /\ backend_call' = NoBackendCall
          /\ memory_client_instance' = memory_client_instance
          /\ delete_all_calls' = delete_all_calls]_vars

\* delete_entities has turned down an app_id given next to a user_id, with
\* the credential present and the client still not created.
C7_Witness ==
    /\ invocation.tool = "delete_entities"
    /\ invocation.app_id = PyStr("app1")
    /\ invocation.user_id = PyStr("u1")
    /\ ErrorCode(outcome) = PyStr("unsupported_scope")
    /\ Truthy(environ)
    /\ memory_client_instance = "None"
    /\ delete_all_calls = 0

SingleTurn(text) ==
    PyList(<<PyDict(<< <<"role", PyStr("user")>>, <<"content", text>> >>)>>)

\* C9: the conversation add_memory forwards is the supplied messages when
\* that list is non-empty, otherwise the single user turn made of text when
\* text is non-empty; text is never in the backend payload; with neither,
\* the call returns messages_missing and makes no backend call.  The
\* backend add never receives an empty conversation.
C9_AddConversation ==
    invocation.tool = "add_memory"
    => LET a == invocation
       IN  /\ backend_call.op = "add" =>
                /\ backend_call.positional =
                      <<IF Truthy(a.messages) THEN a.messages ELSE SingleTurn(a.text)>>
                /\ Truthy(a.messages) \/ Truthy(a.text)
                /\ Truthy(backend_call.positional[1])
                /\ ~HasKey(backend_call.kwargs, "text")
                /\ ~HasKey(backend_call.kwargs, "messages")
           /\ (~Truthy(a.messages) /\ ~Truthy(a.text)) =>
                /\ ErrorCode(outcome) = PyStr("messages_missing")
                /\ backend_call = NoBackendCall
           /\ ((Truthy(a.messages) \/ Truthy(a.text)) /\ outcome # Raise(MissingKeyError))
              => backend_call.op = "add"

\* "buy milk" alone went to the backend as one user turn.
C9_Witness ==
    /\ invocation.tool = "add_memory"
    /\ invocation.text = PyStr("buy milk")
    /\ invocation.messages = PyNone
    /\ backend_call.op = "add"
    /\ backend_call.positional = <<SingleTurn(PyStr("buy milk"))>>

\* C10, as stated: once the first initialisation has failed, no later call
\* in the same process obtains a client.
C10_AsStated ==
    init_failures > 0 => memory_client_instance = "None"

\* C10, amended: a call that needs the client while none exists and
\* OPENAI_API_KEY is missing fails with the RuntimeError, stores no client
\* and reaches no backend operation; that is the only way the RuntimeError
\* arises.  Nothing is remembered of a failure: every call reads the
\* environment again, so calls fail for as long as the credential stays
\* missing, and a call made once it is present does not fail that way and
\* leaves a client in the slot if it reaches the backend.
C10_FailsWhileKeyMissing ==
    [][(invocation = NoInvocation /\ invocation' # NoInvocation)
       => /\ outcome' = Raise(MissingKeyError)
             => (memory_client_instance = "None" /\ ~Truthy(environ))
          /\ (memory_client_instance = "None" /\ ~Truthy(environ))
             => /\ memory_client_instance' = "None"
                /\ backend_call' = NoBackendCall
                /\ \/ outcome' = Raise(MissingKeyError)
                   \/ /\ outcome'.kind = "return"
                      /\ HasKey(json_loads(outcome'.value), "detail")
          /\ Truthy(environ)
             => /\ outcome' # Raise(MissingKeyError)
                /\ backend_call' # NoBackendCall => memory_client_instance' = "client"]_vars

\* After a failed initialisation the credential appeared and a later
\* call obtained a client and reached the backend.
C10_Witness ==
    /\ init_failures >= 1
    /\ memory_client_instance = "client"
    /\ backend_call # NoBackendCall
    /\ Truthy(environ)

----------------------------------------------------------------------------
(* SpecClient: _mem0_client run by several threads at once.  The function *)
(* takes no lock, so a thread may be preempted between any two of its     *)
(* reads and writes of the module-level slot.                             *)

\* The object the n-th call of Memory.from_config builds.
Instance(n) == "client" \o ToString(n)

\* Thread t at position pc with the given locals changed.
Moved(t, changes) == [threads EXCEPT ![t] = changes @@ threads[t]]

InitClient ==
    /\ Idle
    /\ environ \in EnvValues
    /\ invocation = NoInvocation

\* A tool handler on thread t calls _mem0_client().
ClientEnter(t) ==
    /\ threads[t].pc = "idle"
    /\ init_failures < MaxCalls
    /\ threads' = Moved(t, [pc |-> "check"])
    /\ UNCHANGED <<memory_client_instance, environ, invocation, backend_call, outcome,
                   delete_all_calls, init_failures, from_config_calls>>

\* if _memory_client_instance is None:
ClientCheckSlot(t) ==
    /\ threads[t].pc = "check"
    /\ threads' = Moved(t, [pc |-> IF memory_client_instance = "None"
                                   THEN "getenv" ELSE "return"])
    /\ UNCHANGED <<memory_client_instance, environ, invocation, backend_call, outcome,
                   delete_all_calls, init_failures, from_config_calls>>

\* openai_api_key = os.getenv("OPENAI_API_KEY"); raise RuntimeError if not set.
ClientGetEnv(t) ==
    /\ threads[t].pc = "getenv"
    /\ threads' = Moved(t, [pc |-> IF Truthy(environ) THEN "from_config" ELSE "raised",
                            openai_api_key |-> environ])
    /\ init_failures' = IF Truthy(environ) THEN init_failures ELSE init_failures + 1
    /\ UNCHANGED <<memory_client_instance, environ, invocation, backend_call, outcome,
                   delete_all_calls, from_config_calls>>

\* Memory.from_config(config) builds a new client; it is not yet stored.
ClientFromConfig(t) ==
    /\ threads[t].pc = "from_config"
    /\ from_config_calls' = from_config_calls + 1
    /\ threads' = Moved(t, [pc |-> "assign", made |-> Instance(from_config_calls + 1)])
    /\ UNCHANGED <<memory_client_instance, environ, invocation, backend_call, outcome,
                   delete_all_calls, init_failures>>

\* _memory_client_instance = <the client just built>
ClientAssign(t) ==
    /\ threads[t].pc = "assign"
    /\ memory_client_instance' = threads[t].made
    /\ threads' = Moved(t, [pc |-> "return"])
    /\ UNCHANGED <<environ, invocation, backend_call, outcome,
                   delete_all_calls, init_failures, from_config_calls>>

\* return _memory_client_instance
ClientReturn(t) ==
    /\ threads[t].pc = "return"
    /\ threads' = Moved(t, [pc |-> "done", returned |-> memory_client_instance])
    /\ UNCHANGED <<memory_client_instance, environ, invocation, backend_call, outcome,
                   delete_all_calls, init_failures, from_config_calls>>

\* The tool handler on thread t finishes; the thread is free for the next call.
ClientLeave(t) ==
    /\ threads[t].pc \in {"done", "raised"}
    /\ threads' = [threads EXCEPT ![t] = IdleThread]
    /\ UNCHANGED <<memory_client_instance, environ, invocation, backend_call, outcome,
                   delete_all_calls, init_failures, from_config_calls>>

NextClient ==
    \E t \in Threads :
        \/ ClientEnter(t)
        \/ ClientCheckSlot(t)
        \/ ClientGetEnv(t)
        \/ ClientFromConfig(t)
        \/ ClientAssign(t)
        \/ ClientReturn(t)
        \/ ClientLeave(t)

SpecClient == InitClient /\ [][NextClient]_vars

\* C11, as stated: under any interleaving of concurrent invocations
\* Memory.from_config is called at most once, a client stored in the slot
\* is never replaced (so a thread that has stored the client it built still
\* finds it there), and all invocations return the same instance.
C11_AsStated ==
    /\ from_config_calls <= 1
    /\ \A t \in Threads :
          threads[t].pc \in {"return", "done"} /\ threads[t].made # "None"
              => memory_client_instance = threads[t].made
    /\ \A t, u \in Threads :
          threads[t].pc = "done" /\ threads[u].pc = "done"
              => threads[t].returned = threads[u].returned

====
